---- MODULE Spec2Model ----
(***************************************************************************)
(* Financial document classifier: the content extractor                    *)
(* (document_processor.py) and the classification client                   *)
(* (gemini_classifier.py).                                                 *)
(*                                                                         *)
(* Text is a sequence of characters.  A character is a one-element string, *)
(* or one of the named symbols below.  The symbols "{obj}", "{}" and "[]"  *)
(* stand for a whole JSON text that neither starts nor ends with a         *)
(* backtick or a whitespace character; slicing never cuts through them     *)
(* because the code only slices off a prefix or suffix it has just         *)
(* matched character by character.                                         *)
(*   "BQ"    the backquote character                                       *)
(*   "LF"    line feed: whitespace for str.strip() and for json.loads      *)
(*   "FF"    form feed: whitespace for str.strip(), not for json.loads     *)
(*   "{obj}" a JSON object with the keys category, confidence, explanation *)
(*   "{}"    a JSON object without the required keys                       *)
(*   "[]"    a JSON value that is not an object                            *)
(*   "x"     a character that starts no JSON value                         *)
(* A float is [nan, v] with v in tenths, so that 1.0 is v = 10.            *)
(***************************************************************************)
EXTENDS Integers, Sequences, FiniteSets, TLC

VARIABLES
    pc,             \* position of the classify request: "idle", "awaiting", "done"
    content,        \* the argument of classify_document
    calls,          \* the generate_content calls issued for the current request
    response,       \* what generate_content produced (a response object or a raise)
    response_text,  \* the local response_text handed to json.loads
    outcome,        \* what classify_document returned or raised
    xpc,            \* position of the extraction: "none", "uploaded", "extracted"
    uploaded_file,  \* the uploaded file: declared type, payload, read position
    extracted,      \* what extract_text returned
    st_errors,      \* the messages extract_text reported through st.error
    trail           \* the reads, seeks and decodes extract_text performed

cvars == <<pc, content, calls, response, response_text, outcome>>
xvars == <<xpc, uploaded_file, extracted, st_errors, trail>>
vars == <<pc, content, calls, response, response_text, outcome,
          xpc, uploaded_file, extracted, st_errors, trail>>

----------------------------------------------------------------------------
(* Strings *)

Range(s) == {s[i] : i \in 1..Len(s)}

\* str.strip() removes these from both ends
PyWhitespace == {"LF", "FF", " "}

\* json.loads skips only these around the value
JsonWhitespace == {"LF", " "}

StartsWith(s, p) == Len(s) >= Len(p) /\ SubSeq(s, 1, Len(p)) = p

EndsWith(s, p) == Len(s) >= Len(p) /\ SubSeq(s, Len(s) - Len(p) + 1, Len(s)) = p

RECURSIVE LStrip(_, _)
LStrip(s, ws) == IF s # <<>> /\ Head(s) \in ws THEN LStrip(Tail(s), ws) ELSE s

RECURSIVE RStrip(_, _)
RStrip(s, ws) ==
    IF s # <<>> /\ s[Len(s)] \in ws THEN RStrip(SubSeq(s, 1, Len(s) - 1), ws) ELSE s

Strip(s) == RStrip(LStrip(s, PyWhitespace), PyWhitespace)

----------------------------------------------------------------------------
(* The classification client *)

categories ==
    {"Invoice", "Receipt", "Bill", "Check", "Bank Statement",
     "Purchase Order", "Delivery Challan", "Others"}

OpenFence == <<"BQ", "BQ", "BQ", "j", "s", "o", "n">>
CloseFence == <<"BQ", "BQ", "BQ">>

Float(x) == [nan |-> FALSE, v |-> x]
NaN == [nan |-> TRUE, v |-> 0]

\* a < b on floats: every comparison with NaN is false
FloatLt(a, b) == ~a.nan /\ ~b.nan /\ a.v < b.v

\* the builtins keep their first argument unless the second is strictly better
min(a, b) == IF FloatLt(b, a) THEN b ELSE a
max(a, b) == IF FloatLt(a, b) THEN b ELSE a

clamp_unbounded_below(confidence) == min(Float(10), confidence)

\* max(0.0, min(1.0, confidence))
clamp(confidence) == max(Float(0), min(Float(10), confidence))

validate_category_unchecked(category) == category

\* if category not in self.categories: category = "Others"
validate_category(category) == IF category \notin categories THEN "Others" ELSE category

clean_response_short_prefix(text) ==
    LET t0 == Strip(text)
        t1 == IF StartsWith(t0, OpenFence) THEN SubSeq(t0, 4, Len(t0)) ELSE t0
    IN  IF EndsWith(t1, CloseFence) THEN SubSeq(t1, 1, Len(t1) - 3) ELSE t1

\* response.text.strip(), then the two fence removals
clean_response(text) ==
    LET t0 == Strip(text)
        t1 == IF StartsWith(t0, OpenFence) THEN SubSeq(t0, 8, Len(t0)) ELSE t0
    IN  IF EndsWith(t1, CloseFence) THEN SubSeq(t1, 1, Len(t1) - 3) ELSE t1

\* json.loads: "object", "incomplete" (an object without the keys), "other"
\* (a value that is not an object) or "JSONDecodeError"
json_loads(s) ==
    LET t == RStrip(LStrip(s, JsonWhitespace), JsonWhitespace)
    IN  IF t = <<"{obj}">> THEN "object"
        ELSE IF t = <<"{}">> THEN "incomplete"
        ELSE IF t = <<"[]">> THEN "other"
        ELSE "JSONDecodeError"

NoFloat == Float(0)

Result(category, confidence, explanation) ==
    [kind |-> "result", category |-> category, confidence |-> confidence,
     explanation |-> explanation, message |-> <<>>, raw |-> <<>>]

\* a raised ValueError: the pieces of its message, and the response text the
\* message quotes (raw) when it quotes one
Failure(message, raw) ==
    [kind |-> "ValueError", category |-> "", confidence |-> NoFloat,
     explanation |-> "", message |-> message, raw |-> raw]

MsgSafety == "Classification failed due to safety settings. Reason: "
MsgEmpty == "Classification failed: The AI returned an empty response."
MsgMalformed ==
    "Classification failed: The AI returned improperly formatted data. Full AI response: "
MsgPermission ==
    "Classification failed: Permission denied. Please check if your GEMINI_API_KEY is correct and has the necessary permissions."
MsgUnexpected == "An unexpected error occurred during classification: "

json_decode_error_cleaned(r) ==
    Failure(<<MsgMalformed, "<raw_response>">>, Strip(r.text))

\* except json.JSONDecodeError: the message quotes getattr(response, 'text', 'N/A')
json_decode_error(r) == Failure(<<MsgMalformed, "<raw_response>">>, r.text)

\* the body of the try block once generate_content has returned, with the
\* except clauses applied to what it raises
handle_response(r) ==
    IF r.block_reason # ""
    THEN Failure(<<MsgUnexpected, MsgSafety, r.block_reason>>, <<>>)
    ELSE IF ~r.has_text
    THEN Failure(<<MsgUnexpected, MsgEmpty>>, <<>>)
    ELSE LET parsed == json_loads(clean_response(r.text))
         IN  IF parsed = "JSONDecodeError"
             THEN json_decode_error(r)
             ELSE IF parsed = "other"
             THEN Failure(<<MsgUnexpected, "TypeError">>, <<>>)
             ELSE IF parsed = "incomplete"
             THEN Failure(<<MsgUnexpected, "ValidationError">>, <<>>)
             ELSE Result(validate_category(r.data.category),
                         clamp(r.data.confidence),
                         r.data.explanation)

\* what the call to generate_content does: raise, or return a response
finish_call(r) ==
    IF r.raises = "PermissionDenied" THEN Failure(<<MsgPermission>>, <<>>)
    ELSE IF r.raises # "" THEN Failure(<<MsgUnexpected, r.raises>>, <<>>)
    ELSE handle_response(r)

----------------------------------------------------------------------------
(* What the remote model may answer *)

ReportedCategories == categories \cup {"invoice", "Contract"}
ReportedConfidences == {NaN} \cup {Float(x) : x \in {-2, 0, 5, 10, 15}}
ReportedExplanations == {"", "has a total due"}

NoData == [category |-> "", confidence |-> NoFloat, explanation |-> ""]

Paddings == {<<>>, <<"LF">>, <<"FF">>}
Leadings == {<<>>, <<"FF">>}
Trailings == {<<>>, <<"LF">>}
Openings == {<<>>, OpenFence, CloseFence}
Closings == {<<>>, CloseFence}
Cores == {<<>>, <<"{obj}">>, <<"{}">>, <<"[]">>, <<"x">>, <<"{obj}", "x">>}

PartsText(p) == p.pre \o p.open \o p.lpad \o p.core \o p.rpad \o p.close \o p.post

NoParts == [pre |-> <<>>, open |-> <<>>, lpad |-> <<>>, core |-> <<>>,
            rpad |-> <<>>, close |-> <<>>, post |-> <<>>]

Response(raises, block_reason, has_text, parts, data) ==
    [raises |-> raises, block_reason |-> block_reason, has_text |-> has_text,
     text |-> PartsText(parts), parts |-> parts, data |-> data]

NoResponse == Response("", "", FALSE, NoParts, NoData)

Contents == {[kind |-> "str"], [kind |-> "Image"]}
NoContent == [kind |-> "None"]

NoOutcome == [kind |-> "none", category |-> "", confidence |-> NoFloat,
              explanation |-> "", message |-> <<>>, raw |-> <<>>]

----------------------------------------------------------------------------
(* Actions of the classification client *)

\* classify_document up to the call of generate_content: one call, of the
\* kind the content selects
classify_document(c) ==
    /\ pc \in {"idle", "done"}
    /\ pc' = "awaiting"
    /\ content' = c
    /\ calls' = <<IF c.kind = "str" THEN "text" ELSE "multimodal">>
    /\ response' = NoResponse
    /\ response_text' = <<>>
    /\ outcome' = NoOutcome
    /\ UNCHANGED xvars

Finish_retrying(r) ==
    /\ pc = "awaiting"
    /\ pc' = "done"
    /\ response' = r
    /\ response_text' =
           IF r.raises = "" /\ r.block_reason = "" /\ r.has_text
           THEN clean_response(r.text) ELSE <<>>
    /\ outcome' = finish_call(r)
    /\ calls' = IF finish_call(r).kind = "ValueError" THEN calls \o calls ELSE calls
    /\ UNCHANGED content
    /\ UNCHANGED xvars

\* generate_content returns or raises, and the rest of _classify_text or
\* _classify_image runs to its return or raise
Finish(r) ==
    /\ pc = "awaiting"
    /\ pc' = "done"
    /\ response' = r
    /\ response_text' =
           IF r.raises = "" /\ r.block_reason = "" /\ r.has_text
           THEN clean_response(r.text) ELSE <<>>
    /\ outcome' = finish_call(r)
    /\ UNCHANGED <<content, calls>>
    /\ UNCHANGED xvars

\* generate_content raises
generate_content_raises ==
    /\ pc = "awaiting"
    /\ \E e \in {"PermissionDenied", "ServiceUnavailable"} :
        Finish(Response(e, "", FALSE, NoParts, NoData))

\* the response carries a block reason
generate_content_blocked ==
    /\ pc = "awaiting"
    /\ \E b \in {"SAFETY"}, t \in BOOLEAN :
        Finish(Response("", b, t, NoParts, NoData))

\* the response has no text attribute
generate_content_no_text ==
    /\ pc = "awaiting"
    /\ Finish(Response("", "", FALSE, NoParts, NoData))

\* the response has a text
generate_content_text ==
    /\ pc = "awaiting"
    /\ \E pre \in Leadings, open \in Openings, lpad \in Paddings, core \in Cores,
       rpad \in Paddings, close \in Closings, post \in Trailings :
      \E cat \in ReportedCategories, conf \in ReportedConfidences,
         expl \in ReportedExplanations :
        LET parts == [pre |-> pre, open |-> open, lpad |-> lpad, core |-> core,
                      rpad |-> rpad, close |-> close, post |-> post]
            data == IF core = <<"{obj}">>
                    THEN [category |-> cat, confidence |-> conf, explanation |-> expl]
                    ELSE NoData
        IN  Finish(Response("", "", TRUE, parts, data))

----------------------------------------------------------------------------
(* The content extractor *)

\* declared media types, as the pieces the dispatch tells apart
application_pdf == <<"application/pdf">>
text_plain == <<"text/plain">>
application_docx ==
    <<"application/vnd.openxmlformats-officedocument.wordprocessingml.document">>
image_prefix == <<"image/">>

\* extracted text is a sequence of code points; str.strip() removes these
UnicodeWhitespace == {9, 10, 11, 12, 13, 28, 29, 30, 31, 32, 133, 160}

strip(text) == RStrip(LStrip(text, UnicodeWhitespace), UnicodeWhitespace)

\* uploaded_file.read(): the bytes from the read position to the end
read(f) ==
    [data |-> SubSeq(f.payload, f.pos + 1, Len(f.payload)),
     file |-> [f EXCEPT !.pos = Len(f.payload)]]

\* uploaded_file.seek(0)
seek0(f) == [f EXCEPT !.pos = 0]

IsContinuation(b) == b >= 128 /\ b <= 191

Decoded(cp, rest) == [ok |-> rest.ok, text |-> IF rest.ok THEN <<cp>> \o rest.text ELSE <<>>]

\* bytes.decode('utf-8'): one-, two- and three-byte sequences; ok is FALSE
\* where it raises UnicodeDecodeError
RECURSIVE decode_utf8(_)
decode_utf8(b) ==
    IF b = <<>> THEN [ok |-> TRUE, text |-> <<>>]
    ELSE IF b[1] < 128
    THEN Decoded(b[1], decode_utf8(Tail(b)))
    ELSE IF b[1] >= 194 /\ b[1] <= 223 /\ Len(b) >= 2 /\ IsContinuation(b[2])
    THEN Decoded((b[1] - 192) * 64 + (b[2] - 128), decode_utf8(SubSeq(b, 3, Len(b))))
    ELSE IF b[1] >= 225 /\ b[1] <= 236 /\ Len(b) >= 3
            /\ IsContinuation(b[2]) /\ IsContinuation(b[3])
    THEN Decoded((b[1] - 224) * 4096 + (b[2] - 128) * 64 + (b[3] - 128),
                 decode_utf8(SubSeq(b, 4, Len(b))))
    ELSE [ok |-> FALSE, text |-> <<>>]

\* bytes.decode('latin-1'): every byte is the code point of its value
decode_latin1(b) == [i \in 1..Len(b) |-> b[i]]

Returned(kind, text, f, tr) ==
    [raised |-> FALSE, msg |-> <<>>, kind |-> kind, text |-> text, file |-> f, trail |-> tr]

Raised(msg, f, tr) ==
    [raised |-> TRUE, msg |-> msg, kind |-> "None", text |-> <<>>, file |-> f, trail |-> tr]

RECURSIVE concat_lines_unseparated(_)
concat_lines_unseparated(parts) ==
    IF parts = <<>> THEN <<>> ELSE Head(parts) \o concat_lines_unseparated(Tail(parts))

\* text += part + "\n" over the parts, in order
RECURSIVE concat_lines(_)
concat_lines(parts) ==
    IF parts = <<>> THEN <<>> ELSE Head(parts) \o <<10>> \o concat_lines(Tail(parts))

\* PdfReader / Document on the bytes read: the parser accepts a well-formed
\* file it is given whole
parses(f, data) == f.valid /\ data = f.payload

_extract_from_pdf(f) ==
    LET r == read(f)
    IN  IF parses(f, r.data)
        THEN Returned("str", strip(concat_lines(f.parts)), r.file, <<"read">>)
        ELSE Raised(<<"Failed to extract text from PDF: ", "PdfReadError">>, r.file, <<"read">>)

_extract_from_text_without_seek(f) ==
    LET r1 == read(f)
        d == decode_utf8(r1.data)
        r2 == read(r1.file)
    IN  IF d.ok
        THEN Returned("str", strip(d.text), r1.file, <<"read", "utf-8">>)
        ELSE Returned("str", strip(decode_latin1(r2.data)), r2.file,
                      <<"read", "utf-8", "seek", "read", "latin-1">>)

_extract_from_text(f) ==
    LET r1 == read(f)
        d == decode_utf8(r1.data)
        r2 == read(seek0(r1.file))
    IN  IF d.ok
        THEN Returned("str", strip(d.text), r1.file, <<"read", "utf-8">>)
        ELSE Returned("str", strip(decode_latin1(r2.data)), r2.file,
                      <<"read", "utf-8", "seek", "read", "latin-1">>)

_extract_from_docx(f) ==
    LET r == read(f)
    IN  IF parses(f, r.data)
        THEN Returned("str", strip(concat_lines(f.parts)), r.file, <<"read">>)
        ELSE Raised(<<"Failed to extract text from Word document: ", "PackageNotFoundError">>,
                    r.file, <<"read">>)

\* Image.open(uploaded_file)
Image_open(f) ==
    IF f.valid THEN Returned("Image", <<>>, f, <<"open">>)
    ELSE Raised(<<"cannot identify image file">>, f, <<"open">>)

dispatch_default_text(f) ==
    IF f.type = application_pdf THEN _extract_from_pdf(f)
    ELSE IF StartsWith(f.type, image_prefix) THEN Image_open(f)
    ELSE IF f.type = application_docx THEN _extract_from_docx(f)
    ELSE _extract_from_text(f)

\* the try block of extract_text
dispatch(f) ==
    IF f.type = application_pdf THEN _extract_from_pdf(f)
    ELSE IF StartsWith(f.type, image_prefix) THEN Image_open(f)
    ELSE IF f.type = text_plain THEN _extract_from_text(f)
    ELSE IF f.type = application_docx THEN _extract_from_docx(f)
    ELSE Raised(<<"Unsupported file type: ">> \o f.type, f, <<>>)

extract_text_on_uncaught(f) ==
    LET r == dispatch(f)
    IN  [raised |-> r.raised, kind |-> r.kind, text |-> r.text, file |-> r.file,
         trail |-> r.trail, errors |-> <<>>]

\* extract_text: the try block, and the except clause that reports through
\* st.error and returns None
extract_text_on(f) ==
    LET r == dispatch(f)
    IN  IF r.raised
        THEN [raised |-> FALSE, kind |-> "None", text |-> <<>>, file |-> r.file,
              trail |-> r.trail,
              errors |-> <<(<<"Error processing document: ">> \o r.msg)>>]
        ELSE [raised |-> FALSE, kind |-> r.kind, text |-> r.text, file |-> r.file,
              trail |-> r.trail, errors |-> <<>>]

----------------------------------------------------------------------------
(* The files a user may upload *)

MaxLen == 3
MaxPages == 2
MaxParagraphs == 2

Bytes == {32, 65, 160, 194, 233}
PageTexts == {<<>>, <<65>>, <<32, 65>>, <<66, 10>>, <<32>>}
ParagraphTexts == {<<>>, <<65>>}

SeqsUpTo(S, n) == UNION {[1..k -> S] : k \in 0..n}

File(type, payload, valid, parts) ==
    [type |-> type, payload |-> payload, valid |-> valid, parts |-> parts, pos |-> 0]

UnsupportedTypes ==
    {<<"application/zip">>, <<"text/", "html">>, <<"IMAGE/", "png">>, <<"image">>, <<>>}

Uploads ==
    {File(application_pdf, <<37>>, TRUE, pp) : pp \in SeqsUpTo(PageTexts, MaxPages)}
    \cup {File(application_pdf, <<37>>, FALSE, <<>>)}
    \cup {File(text_plain, b, TRUE, <<>>) : b \in SeqsUpTo(Bytes, MaxLen)}
    \cup {File(application_docx, <<80>>, TRUE, pp) :
             pp \in SeqsUpTo(ParagraphTexts, MaxParagraphs)}
    \cup {File(application_docx, <<80>>, FALSE, <<>>)}
    \cup {File(image_prefix \o <<t>>, <<137>>, v, <<>>) : t \in {"png", "jpeg"}, v \in BOOLEAN}
    \cup {File(t, <<120>>, TRUE, <<>>) : t \in UnsupportedTypes}

NoExtract == [kind |-> "none", text |-> <<>>, raised |-> FALSE]

----------------------------------------------------------------------------
(* Actions of the content extractor *)

\* st.file_uploader hands over a new file, positioned at its start
upload(f) ==
    /\ xpc' = "uploaded"
    /\ uploaded_file' = f
    /\ extracted' = NoExtract
    /\ st_errors' = <<>>
    /\ trail' = <<>>
    /\ UNCHANGED cvars

\* the button handler up to the return of extract_text: uploaded_file.seek(0),
\* then extract_text(uploaded_file)
extract_text ==
    /\ xpc \in {"uploaded", "extracted"}
    /\ LET r == extract_text_on(seek0(uploaded_file))
       IN  /\ uploaded_file' = r.file
           /\ extracted' = [kind |-> r.kind, text |-> r.text, raised |-> r.raised]
           /\ st_errors' = r.errors
           /\ trail' = r.trail
    /\ xpc' = "extracted"
    /\ UNCHANGED cvars

----------------------------------------------------------------------------
(* Specifications *)

NoFile == File(<<>>, <<>>, FALSE, <<>>)

Init ==
    /\ pc = "idle"
    /\ content = NoContent
    /\ calls = <<>>
    /\ response = NoResponse
    /\ response_text = <<>>
    /\ outcome = NoOutcome
    /\ xpc = "none"
    /\ uploaded_file = NoFile
    /\ extracted = NoExtract
    /\ st_errors = <<>>
    /\ trail = <<>>

Next ==
    \/ \E c \in Contents : classify_document(c)
    \/ generate_content_raises
    \/ generate_content_blocked
    \/ generate_content_no_text
    \/ generate_content_text

Spec == Init /\ [][Next]_vars

ExtractNext ==
    \/ \E f \in Uploads : upload(f)
    \/ extract_text

ExtractSpec == Init /\ [][ExtractNext]_vars

----------------------------------------------------------------------------
(* The upload-to-result flow of main *)

\* len(processed_content.strip()) < 10
MinTextLength == 10

Repeat(c, n) == [i \in 1..n |-> c]

\* files whose text is around the length main asks for
LongUploads ==
    {File(text_plain, b, TRUE, <<>>) :
        b \in {Repeat(65, MinTextLength - 1),
               Repeat(65, MinTextLength),
               <<32>> \o Repeat(65, MinTextLength - 1) \o <<32>>,
               Repeat(65, MinTextLength - 1) \o <<160>>,
               Repeat(65, 5) \o <<32>> \o Repeat(65, MinTextLength - 6)}}
    \cup {File(application_pdf, <<37>>, TRUE, pp) :
            pp \in {<<Repeat(65, 4), Repeat(65, MinTextLength - 5)>>,
                    <<Repeat(65, 4), Repeat(65, MinTextLength - 6)>>}}
    \cup {File(application_docx, <<80>>, TRUE, <<Repeat(65, MinTextLength)>>)}

AppUploads == Uploads \cup LongUploads

\* what the remote model answers in the flow: one answer of each kind
AppResponses ==
    {Response("PermissionDenied", "", FALSE, NoParts, NoData),
     Response("", "SAFETY", TRUE, NoParts, NoData),
     Response("", "", FALSE, NoParts, NoData),
     Response("", "", TRUE, [NoParts EXCEPT !.core = <<"x">>], NoData),
     Response("", "", TRUE, [NoParts EXCEPT !.core = <<"{obj}">>],
              [category |-> "Invoice", confidence |-> Float(5),
               explanation |-> "has a total due"]),
     Response("", "", TRUE,
              [NoParts EXCEPT !.open = OpenFence, !.lpad = <<"LF">>,
                              !.core = <<"{obj}">>, !.rpad = <<"LF">>,
                              !.close = CloseFence],
              [category |-> "Contract", confidence |-> Float(15), explanation |-> ""])}

MsgNoContent ==
    "Could not process the document. It might be corrupted or in an unsupported format."
MsgInsufficient ==
    "Could not extract sufficient text from the document. Please ensure the document contains readable text."

classifiable_unless_none(kind, text) == kind # "None"

\* the two returns of main before the classifier: no content, and text whose
\* trimmed length is under MinTextLength; an image is not measured
classifiable(kind, text) ==
    /\ kind # "None"
    /\ ~(kind = "str" /\ Len(strip(text)) < MinTextLength)

\* the script runs again on a new upload: nothing of the last request is
\* left; the preview of an image may leave the file read to its end
main_upload(f) ==
    /\ xpc' = "uploaded"
    /\ \E p \in {0, Len(f.payload)} :
           uploaded_file' =
               [f EXCEPT !.pos = IF StartsWith(f.type, image_prefix) THEN p ELSE 0]
    /\ extracted' = NoExtract
    /\ st_errors' = <<>>
    /\ trail' = <<>>
    /\ pc' = "idle"
    /\ content' = NoContent
    /\ calls' = <<>>
    /\ response' = NoResponse
    /\ response_text' = <<>>
    /\ outcome' = NoOutcome

\* the button handler up to the call of generate_content: seek(0),
\* extract_text, the two early returns, classify_document
main_click ==
    /\ xpc \in {"uploaded", "extracted"}
    /\ pc \in {"idle", "done"}
    /\ LET r == extract_text_on(seek0(uploaded_file))
           go == classifiable(r.kind, r.text)
       IN  /\ uploaded_file' = r.file
           /\ extracted' = [kind |-> r.kind, text |-> r.text, raised |-> r.raised]
           /\ trail' = r.trail
           /\ st_errors' =
                  IF r.kind = "None" THEN r.errors \o <<(<<MsgNoContent>>)>>
                  ELSE IF ~go THEN <<(<<MsgInsufficient>>)>>
                  ELSE <<>>
           /\ pc' = IF go THEN "awaiting" ELSE "idle"
           /\ content' = IF go THEN [kind |-> r.kind] ELSE NoContent
           /\ calls' = IF ~go THEN <<>>
                       ELSE <<IF r.kind = "str" THEN "text" ELSE "multimodal">>
    /\ xpc' = "extracted"
    /\ response' = NoResponse
    /\ response_text' = <<>>
    /\ outcome' = NoOutcome

\* the rest of the button handler: generate_content returns or raises, the
\* classifier returns or raises, main shows the result or the error
main_reply(r) ==
    /\ pc = "awaiting"
    /\ pc' = "done"
    /\ response' = r
    /\ response_text' =
           IF r.raises = "" /\ r.block_reason = "" /\ r.has_text
           THEN clean_response(r.text) ELSE <<>>
    /\ outcome' = finish_call(r)
    /\ st_errors' =
           IF finish_call(r).kind = "ValueError"
           THEN <<(<<"Error processing document: ">> \o finish_call(r).message)>>
           ELSE st_errors
    /\ UNCHANGED <<content, calls, xpc, uploaded_file, extracted, trail>>

AppNext ==
    \/ \E f \in AppUploads : main_upload(f)
    \/ main_click
    \/ \E r \in AppResponses : main_reply(r)

AppSpec == Init /\ [][AppNext]_vars

----------------------------------------------------------------------------
(* Properties of the classification client *)

CategorySet ==
    {"Invoice", "Receipt", "Bill", "Check", "Bank Statement",
     "Purchase Order", "Delivery Challan", "Others"}

Returned_a_result == pc = "done" /\ outcome.kind = "result"

HasMessage(o, m) == o.kind = "ValueError" /\ m \in Range(o.message)

\* C1: every returned category, on the text path and on the image path, is
\* one of the eight categories: the category the remote model reported when
\* that is one of the eight, and "Others" for any other reported category.
C1_CategoryInFixedSet ==
    Returned_a_result =>
        /\ outcome.category \in CategorySet
        /\ response.data.category \in CategorySet =>
               outcome.category = response.data.category
        /\ response.data.category \notin CategorySet => outcome.category = "Others"

C1_Witness ==
    /\ Returned_a_result
    /\ content.kind = "Image"
    /\ response.data.category = "Contract"
    /\ outcome.category = "Others"

\* C2: a reported confidence above 1.0 is returned as 1.0, one below 0.0 as
\* 0.0, one inside [0,1] unchanged, and every returned confidence is a number
\* in [0,1].
C2_ConfidenceClamped ==
    Returned_a_result =>
        LET reported == response.data.confidence
            returned == outcome.confidence
        IN  /\ ~returned.nan /\ returned.v >= 0 /\ returned.v <= 10
            /\ (~reported.nan /\ reported.v > 10) => returned = Float(10)
            /\ (~reported.nan /\ reported.v < 0) => returned = Float(0)
            /\ (~reported.nan /\ reported.v >= 0 /\ reported.v <= 10) =>
                   returned = reported

C2_Witness ==
    /\ Returned_a_result
    /\ content.kind = "str"
    /\ response.data.confidence = Float(-2)
    /\ outcome.confidence = Float(0)

\* the response the remote model would have given with the body alone
Unwrapped(r) ==
    Response("", "", TRUE,
             [NoParts EXCEPT !.lpad = r.parts.lpad, !.core = r.parts.core,
                             !.rpad = r.parts.rpad],
             r.data)

IsWrapped(r) ==
    /\ r.raises = "" /\ r.block_reason = "" /\ r.has_text
    /\ r.parts.open = <<"BQ", "BQ", "BQ", "j", "s", "o", "n">>
    /\ r.parts.close = <<"BQ", "BQ", "BQ">>

\* same result, or the same failure (the quoted response text apart)
SameOutcome(o1, o2) ==
    /\ o1.kind = o2.kind
    /\ o1.category = o2.category
    /\ o1.confidence = o2.confidence
    /\ o1.explanation = o2.explanation
    /\ o1.message = o2.message

\* the leading fence goes exactly when the trimmed response starts with it,
\* the trailing fence exactly when the trimmed response ends with it
FencesRemovedIndependently ==
    (pc = "done" /\ response.raises = "" /\ response.block_reason = ""
                 /\ response.has_text) =>
        LET t == Strip(response.text)
            leading == StartsWith(t, <<"BQ", "BQ", "BQ", "j", "s", "o", "n">>)
            trailing == EndsWith(t, <<"BQ", "BQ", "BQ">>)
        IN  response_text =
                SubSeq(t, IF leading THEN 8 ELSE 1,
                          IF trailing THEN Len(t) - 3 ELSE Len(t))

\* C3 as stated: a response wrapped in the two fences has exactly the outcome
\* of the unwrapped response with the same body, and each fence is removed
\* exactly when it is present, independently of the other.
C3_Original ==
    /\ FencesRemovedIndependently
    /\ (pc = "done" /\ IsWrapped(response)) =>
           SameOutcome(outcome, finish_call(Unwrapped(response)))

JsonPadded(r) ==
    Range(r.parts.lpad) \cup Range(r.parts.rpad) \subseteq {" ", "LF"}

\* C3 amended: a response wrapped in the two fences has the outcome of the
\* unwrapped response with the same body when the only whitespace around the
\* body, inside the fences, is JSON whitespace; each fence is removed exactly
\* when it is present, independently of the other.
C3_FencedAsUnwrapped ==
    /\ FencesRemovedIndependently
    /\ (pc = "done" /\ IsWrapped(response) /\ JsonPadded(response)) =>
           SameOutcome(outcome, finish_call(Unwrapped(response)))

C3_Witness ==
    /\ pc = "done" /\ IsWrapped(response)
    /\ response.parts.lpad = <<"LF">> /\ response.parts.rpad = <<"LF">>
    /\ response.parts.core = <<"{obj}">>
    /\ response.parts.pre = <<"FF">>
    /\ outcome.kind = "result"
    /\ outcome.category = "Receipt"
    /\ response_text = <<"LF", "{obj}", "LF">>

\* the text handed to json.loads is a JSON text
ValidJson(t) ==
    \E v \in {"{obj}", "{}", "[]"} :
        \E i \in 1..Len(t) :
            /\ t[i] = v
            /\ \A j \in 1..Len(t) : j # i => t[j] \in {" ", "LF"}

\* C4: a response that is not valid JSON once the fences are stripped gives no
\* result, and the failure message quotes the response text as received.
C4_MalformedQuotesRaw ==
    (pc = "done" /\ response.raises = "" /\ response.block_reason = ""
                 /\ response.has_text /\ ~ValidJson(response_text)) =>
        /\ HasMessage(outcome, MsgMalformed)
        /\ outcome.raw = PartsText(response.parts)

C4_Witness ==
    /\ pc = "done"
    /\ response.has_text
    /\ response.parts.open = <<"BQ", "BQ", "BQ", "j", "s", "o", "n">>
    /\ response.parts.core = <<"x">>
    /\ response.parts.post = <<"LF">>
    /\ HasMessage(outcome, MsgMalformed)
    /\ outcome.raw = response.text
    /\ outcome.raw # response_text

\* C5: a response without a block reason whose text is empty or absent fails
\* with the empty-response failure, not with the malformed-JSON failure and
\* not with a result.
C5_EmptyResponse ==
    (pc = "done" /\ response.raises = "" /\ response.block_reason = ""
                 /\ (~response.has_text \/ response.text = <<>>)) =>
        /\ HasMessage(outcome, MsgEmpty)
        /\ ~HasMessage(outcome, MsgMalformed)

\* C10: a classify request has issued exactly one call to the remote model
\* from its start on, a text call for text and a multimodal call for an
\* image; it ends in exactly one outcome, a result or a failure; and once it
\* has ended, in a failure too, no further call is made for it.
C10_OneCallOneOutcome ==
    /\ pc \in {"awaiting", "done"} =>
           calls = <<IF content.kind = "str" THEN "text" ELSE "multimodal">>
    /\ pc = "awaiting" => outcome.kind = "none"
    /\ pc = "done" => outcome.kind \in {"result", "ValueError"}
    /\ pc = "idle" => calls = <<>>

C10_Witness ==
    /\ pc = "done"
    /\ content.kind = "Image"
    /\ response.raises = "PermissionDenied"
    /\ outcome.kind = "ValueError"
    /\ calls = <<"multimodal">>

----------------------------------------------------------------------------
(* Properties of the content extractor *)

IsUnsupported(t) ==
    /\ t # <<"application/pdf">>
    /\ ~StartsWith(t, <<"image/">>)
    /\ t # <<"text/plain">>
    /\ t # <<"application/vnd.openxmlformats-officedocument.wordprocessingml.document">>

\* C6: for a declared type that is none of the supported ones, extraction
\* returns no content, reports an error naming the type, and has not read the
\* payload.
C6_UnsupportedType ==
    (xpc = "extracted" /\ IsUnsupported(uploaded_file.type)) =>
        /\ extracted.kind = "None"
        /\ st_errors = <<(<<"Error processing document: ", "Unsupported file type: ">>
                            \o uploaded_file.type)>>
        /\ "read" \notin Range(trail)
        /\ uploaded_file.pos = 0

C6_Witness ==
    /\ xpc = "extracted"
    /\ uploaded_file.type = <<"IMAGE/", "png">>
    /\ extracted.kind = "None"
    /\ trail = <<>>

\* the file makes some step of the extraction raise
Fails(f) == IsUnsupported(f.type) \/ ~f.valid

\* C7: extraction raises nothing to its caller; it returns None exactly when a
\* step of it failed, and then reports the error; a readable document without
\* text gives the empty string, not None.
C7_FailuresBecomeNone ==
    xpc = "extracted" =>
        /\ ~extracted.raised
        /\ extracted.kind = "None" <=> Fails(uploaded_file)
        /\ extracted.kind = "None" => Len(st_errors) = 1
        /\ extracted.kind # "None" => st_errors = <<>>
        /\ (~Fails(uploaded_file) /\ ~StartsWith(uploaded_file.type, <<"image/">>)) =>
               extracted.kind = "str"

C7_Witness ==
    /\ xpc = "extracted"
    /\ uploaded_file.type = <<"application/pdf">>
    /\ uploaded_file.valid
    /\ uploaded_file.parts = <<(<<32>>)>>
    /\ extracted.kind = "str"
    /\ extracted.text = <<>>

\* C8: a plain-text payload that is not valid UTF-8 is read again from its
\* start, decoded as Latin-1 and returned trimmed, after the UTF-8 decode has
\* failed; a payload that is valid UTF-8 is never decoded as Latin-1.
C8_Latin1Fallback ==
    (xpc = "extracted" /\ uploaded_file.type = <<"text/plain">>) =>
        LET b == uploaded_file.payload
            latin1 == [i \in 1..Len(b) |-> b[i]]
        IN  IF decode_utf8(b).ok
            THEN /\ trail = <<"read", "utf-8">>
                 /\ extracted.kind = "str"
            ELSE /\ trail = <<"read", "utf-8", "seek", "read", "latin-1">>
                 /\ extracted.kind = "str"
                 /\ extracted.text = strip(latin1)

C8_Witness ==
    /\ xpc = "extracted"
    /\ uploaded_file.type = <<"text/plain">>
    /\ uploaded_file.payload = <<160, 65, 233>>
    /\ extracted.kind = "str"
    /\ extracted.text = <<65, 233>>
    /\ "latin-1" \in Range(trail)

RECURSIVE ContainsInOrder(_, _)
ContainsInOrder(text, parts) ==
    \/ parts = <<>>
    \/ \E i \in 0..(Len(text) - Len(Head(parts))) :
           /\ SubSeq(text, i + 1, i + Len(Head(parts))) = Head(parts)
           /\ ContainsInOrder(SubSeq(text, i + Len(Head(parts)) + 1, Len(text)),
                              Tail(parts))

RECURSIVE JoinLines(_)
JoinLines(parts) ==
    IF Len(parts) = 1 THEN parts[1]
    ELSE parts[1] \o <<10>> \o JoinLines(Tail(parts))

IsSpace(c) == c \in {9, 10, 11, 12, 13, 28, 29, 30, 31, 32, 133, 160}

NoEdgeWhitespace(text) ==
    text # <<>> => ~IsSpace(text[1]) /\ ~IsSpace(text[Len(text)])

PdfWithText ==
    /\ xpc = "extracted"
    /\ uploaded_file.type = <<"application/pdf">>
    /\ uploaded_file.valid
    /\ uploaded_file.parts # <<>>
    /\ \A i \in 1..Len(uploaded_file.parts) : uploaded_file.parts[i] # <<>>

\* C9 as stated: for a PDF whose pages all yield non-empty text, the returned
\* string contains every page's text in order and has no leading or trailing
\* whitespace.
C9_Original ==
    PdfWithText =>
        /\ extracted.kind = "str"
        /\ ContainsInOrder(extracted.text, uploaded_file.parts)
        /\ NoEdgeWhitespace(extracted.text)

\* C9 amended: the returned string is the pages' texts in order joined by
\* newlines, with the whitespace at the two ends of the whole removed; it has
\* no leading or trailing whitespace, and it contains every page's text in
\* order when the first page does not start and the last page does not end
\* with whitespace.
C9_PagesJoinedAndTrimmed ==
    PdfWithText =>
        LET pages == uploaded_file.parts
            first == pages[1]
            last == pages[Len(pages)]
        IN  /\ extracted.kind = "str"
            /\ NoEdgeWhitespace(extracted.text)
            /\ extracted.text = strip(JoinLines(pages))
            /\ (~IsSpace(first[1]) /\ ~IsSpace(last[Len(last)])) =>
                   /\ extracted.text = JoinLines(pages)
                   /\ ContainsInOrder(extracted.text, pages)

C9_Witness ==
    /\ PdfWithText
    /\ uploaded_file.parts = <<(<<66, 10>>), (<<32, 65>>)>>
    /\ extracted.text = <<66, 10, 10, 32, 65>>

----------------------------------------------------------------------------
(* Properties of the upload-to-result flow *)

\* C11: the remote classifier is invoked only after extraction has returned
\* content; it is never invoked when extraction returned None or text whose
\* trimmed length is under 10; an image is passed to the classifier whatever
\* its length.
C11_ClassifierGated ==
    /\ calls # <<>> =>
           /\ xpc = "extracted"
           /\ extracted.kind \in {"str", "Image"}
           /\ content.kind = extracted.kind
           /\ extracted.kind = "str" =>
                  Len(strip(extracted.text)) >= 10
    /\ (xpc = "extracted" /\ extracted.kind = "None") =>
           calls = <<>> /\ pc = "idle"
    /\ (xpc = "extracted" /\ extracted.kind = "str"
            /\ Len(strip(extracted.text)) < 10) =>
           calls = <<>> /\ pc = "idle"
    /\ (xpc = "extracted" /\ extracted.kind = "Image") =>
           /\ calls = <<"multimodal">>
           /\ pc \in {"awaiting", "done"}

C11_Witness ==
    /\ xpc = "extracted"
    /\ uploaded_file.type = <<"text/plain">>
    /\ Len(uploaded_file.payload) = 11
    /\ extracted.kind = "str"
    /\ Len(extracted.text) = 9
    /\ calls = <<>>
    /\ pc = "idle"
    /\ st_errors = <<(<<MsgInsufficient>>)>>

====
